---- MODULE Spec2Model ----
(***************************************************************************)
(* sqlargon: the per-context session binding of Database (db.py) and the   *)
(* SQLAlchemyUnitOfWork scope built on it (uow.py).                        *)
(*                                                                         *)
(* Logical contexts are asyncio tasks.  Every task owns a context, and a   *)
(* task started with asyncio.create_task runs in a COPY of the context of  *)
(* the task that started it.  The ContextVar Database._current_session is  *)
(* therefore a function from contexts to values.                           *)
(***************************************************************************)
EXTENDS Integers, Sequences, FiniteSets, TLC

\* ------------------------------------------------------------------ bounds
NumTasks == 2
MaxSessions == 2
MaxWrites == 2
MaxUoWs == 2
MaxRepos == 3
MaxMinor == 40
MaxPatch == 1
MaxRows == 2
MaxDepth == 2

\* ContextVar default (db.py:60) and "no object".
None == 0

Tasks == 1 .. NumTasks
SessionIds == 1 .. MaxSessions

\* Attribute names asked of a unit of work; Declared are the names its class
\* annotates with a repository type (get_type_hints finds a class for them).
Declared == {"users", "orders"}
Names == Declared \cup {"missing"}

\* Contexts: one per caller task, one per _close task (a _close task is
\* created per scope exit, and a scope has exactly one session).
TaskCtx(t) == t
CloseCtx(s) == NumTasks + s
Contexts == 1 .. (NumTasks + MaxSessions)

\* The exception triple async-with hands to __aexit__, and the empty tuple
\* of a direct call "await uow.__aexit__()".
NoArgs == << >>
NoneTriple == <<"None", "None", "None">>
ErrorTriple == <<"BodyError", "BodyError", "tb">>
CancelTriple == <<"CancelledError", "CancelledError", "tb">>
ExcArgs == {NoArgs, NoneTriple, ErrorTriple, CancelTriple}

VARIABLES
    _current_session,   \* ContextVar: context -> session id or None
    pc,                 \* task -> "idle" | "body" | "exiting" | "cancelled"
    scope,              \* task -> session of the scope it is in or left last
    leaving,            \* task -> the arguments of the __aexit__ it awaits (or was
                        \* cancelled in)
    uow,                \* task -> the unit of work it holds (or NoUoW)
    nextUoW,            \* unit-of-work objects constructed so far
    created,            \* session id -> made by session_maker()
    closed,             \* session id -> close() has completed on it
    owner,              \* session id -> task whose scope entry made it
    pending,            \* session id -> rows written in its open transaction
    nwrites,            \* session id (None: implicit sessions) -> rows written
    committed,          \* rows committed to the database
    byBody,             \* rows committed by uow.commit() called in a scope's body
    td,                 \* session id -> the _close task of its scope
    last,               \* the call that completed last and what it reported
    _repositories,      \* task -> its uow's dict: name -> repository instance
    built,              \* task -> name -> times its uow constructed that repository
    repoOwner,          \* repository instance -> the uow object that built it
    nextRepo,           \* repository instances constructed so far
    db,                 \* the Database object: its dialect, capability flags and insert
    gen,                \* the async generator of a stream_scalars call
    outer               \* task -> sessions made by the scopes around the one it is in

taskVars == <<pc, scope, leaving>>
uowVars == <<uow, nextUoW>>
sessVars == <<created, closed, owner>>
dataVars == <<pending, nwrites, committed, byBody>>
repoVars == <<_repositories, built, repoOwner, nextRepo>>
vars == <<_current_session, pc, scope, leaving, uow, nextUoW, created, closed,
          owner, pending, nwrites, committed, byBody, td, last, _repositories, built,
          repoOwner, nextRepo, db, gen, outer>>

\* ------------------------------------------------------- Database (db.py)

\* Database.current_session getter: self._current_session.get()
current_session(cv, ctx) == cv[ctx]

\* variant: one shared slot instead of a context-local variable
SharedSlotSetter(cv, ctx, session) == [c \in DOMAIN cv |-> session]

\* Database.current_session setter: self._current_session.set(session)
current_session_setter(cv, ctx, session) == [cv EXCEPT ![ctx] = session]

\* variant: the bound session is never found
never_in_session_context(cv, ctx) == FALSE

\* Database.in_session_context
in_session_context(cv, ctx) == cv[ctx] # None

\* asyncio.create_task(...): the new task runs in a copy of the context
\* of the task that creates it.
create_task_context(cv, parent, child) == [cv EXCEPT ![child] = cv[parent]]

\* Database.set_current_session(): publish a new session as current for
\* the calling context.
set_current_session(cv, ctx, session) == current_session_setter(cv, ctx, session)

\* Database.session_maker(): a new AsyncSession object (a fresh identity).
session_maker(made) == CHOOSE s \in SessionIds : ~made[s] /\ \A r \in SessionIds : r < s => made[r]

\* A session made by Database.session() for one call, never published.
Implicit == -1

\* ----------------------------------------- Database.__init__ (dialect policy)
\* Strings are sequences of characters; Python orders them by code point,
\* character by character, a proper prefix below the longer string.
Chars == <<".", "0", "1", "2", "3", "4", "5", "6", "7", "8", "9">>
ord(c) == CHOOSE i \in 1 .. Len(Chars) : Chars[i] = c

RECURSIVE str_gt(_, _)
str_gt(a, b) ==
    IF a = << >> THEN FALSE
    ELSE IF b = << >> THEN TRUE
    ELSE IF Head(a) # Head(b) THEN ord(Head(a)) > ord(Head(b))
    ELSE str_gt(Tail(a), Tail(b))

\* The decimal digits of a natural number
RECURSIVE digits(_)
digits(n) ==
    IF n < 10 THEN <<Chars[n + 2]>>
    ELSE digits(n \div 10) \o <<Chars[(n % 10) + 2]>>

\* sqlite3.sqlite_version: the dotted string of the library's version
sqlite_version(v) == digits(v[1]) \o <<".">> \o digits(v[2]) \o <<".">> \o digits(v[3])

\* The versions of the sqlite library the interpreter may be linked with
Versions == {<<3, m, p>> : m \in 0 .. MaxMinor, p \in 0 .. MaxPatch}
Dialects == {"postgresql", "sqlite", "mysql"}

\* The class attributes of Database: what an instance reads before, and
\* unless, __init__ sets an attribute of its own.
ClassAttributes ==
    [insert |-> "sa.insert", supports_returning |-> FALSE, supports_on_conflict |-> FALSE]

\* variant: the sqlite branch forgets the on-conflict flag
policy_sqlite_no_conflict(dialect, v) ==
    IF dialect = "postgresql"
    THEN [insert |-> "postgresql.insert", supports_returning |-> TRUE,
          supports_on_conflict |-> TRUE]
    ELSE IF dialect = "sqlite"
    THEN [insert |-> "sqlite.insert",
          supports_returning |-> str_gt(sqlite_version(v), <<"3", ".", "3", "5">>),
          supports_on_conflict |-> FALSE]
    ELSE ClassAttributes

\* Database.__init__, the dialect branches: insert and the two flags for the
\* dialect of the url, with the sqlite library at version v.
dialect_policy(dialect, v) ==
    IF dialect = "postgresql"
    THEN [insert |-> "postgresql.insert", supports_returning |-> TRUE,
          supports_on_conflict |-> TRUE]
    ELSE IF dialect = "sqlite"
    THEN [insert |-> "sqlite.insert",
          supports_returning |-> str_gt(sqlite_version(v), <<"3", ".", "3", "5">>),
          supports_on_conflict |-> TRUE]
    ELSE ClassAttributes

\* The Database object constructed for a url of the dialect
Database(dialect, v) ==
    [dialect |-> dialect, version |-> v,
     insert |-> dialect_policy(dialect, v).insert,
     supports_returning |-> dialect_policy(dialect, v).supports_returning,
     supports_on_conflict |-> dialect_policy(dialect, v).supports_on_conflict]

\* No Database object yet: the class alone
NoDatabase ==
    [dialect |-> "none", version |-> << >>,
     insert |-> ClassAttributes.insert,
     supports_returning |-> ClassAttributes.supports_returning,
     supports_on_conflict |-> ClassAttributes.supports_on_conflict]

\* Database.default_execution_options: no positional and no keyword options
default_execution_options == << << >>, {} >>

\* "if not args or kwargs: args, kwargs = self.default_execution_options" at
\* the head of execute, execute_from_connection and stream_scalars: the
\* options handed on to the session.  Python reads the test as
\* (not args) or kwargs.
execution_options(args, kwargs) ==
    IF args = << >> \/ kwargs # {} THEN default_execution_options ELSE <<args, kwargs>>

\* ------------------------------------------------ AsyncSession (as called)
\* What the session calls made by the handlers do to the session and the
\* database.  A call name ending in "!" is a call that raised.
SessionStep(call, st) ==
    CASE call = "commit"   -> [st EXCEPT !.committed = @ \cup st.pending, !.pending = {}]
      [] call = "rollback" -> [st EXCEPT !.pending = {}]
      [] call = "close"    -> [st EXCEPT !.pending = {}, !.closed = TRUE]
      [] OTHER             -> st

RECURSIVE SessionEffect(_, _)
SessionEffect(calls, st) ==
    IF calls = << >> THEN st
    ELSE SessionEffect(Tail(calls), SessionStep(Head(calls), st))

Mark(name, ok) == IF ok THEN name ELSE name \o "!"

\* ----------------------------------------- SQLAlchemyUnitOfWork (uow.py)
NoUoW == [autocommit |-> FALSE, raise_on_exc |-> FALSE, id |-> None]

\* variant: the property hands back None instead of raising
session_never_raises(s) == FALSE

\* SQLAlchemyUnitOfWork.session: raises AttributeError when nothing is bound
session_raises(s) == s = None

\* variant: commit() that leaves a failed commit as it is
commit_no_rollback(s, raise_on_exc, cOk, rOk) ==
    IF session_raises(s) THEN [calls |-> << >>, err |-> "AttributeError"]
    ELSE IF cOk THEN [calls |-> <<"commit">>, err |-> "none"]
    ELSE [calls |-> <<"commit!">>, err |-> IF raise_on_exc THEN "CommitError" ELSE "none"]

\* SQLAlchemyUnitOfWork.commit(): the session calls it makes and the error
\* it raises, for the session s it finds bound, when the commit succeeds
\* (cOk) or not and the rollback after a failed commit succeeds (rOk) or not.
commit_result(s, raise_on_exc, cOk, rOk) ==
    IF session_raises(s) THEN [calls |-> << >>, err |-> "AttributeError"]
    ELSE IF cOk THEN [calls |-> <<"commit">>, err |-> "none"]
    ELSE IF ~rOk THEN [calls |-> <<"commit!", "rollback!">>, err |-> "RollbackError"]
    ELSE [calls |-> <<"commit!", "rollback">>,
          err |-> IF raise_on_exc THEN "CommitError" ELSE "none"]

\* SQLAlchemyUnitOfWork.rollback()
rollback_result(s, rOk) ==
    IF session_raises(s) THEN [calls |-> << >>, err |-> "AttributeError"]
    ELSE [calls |-> <<Mark("rollback", rOk)>>, err |-> IF rOk THEN "none" ELSE "RollbackError"]

\* variant: the exit commits whenever autocommit is set, error or not
_close_try_commit_first(exc, autocommit, raise_on_exc, s, cOk, rOk) ==
    IF autocommit THEN commit_result(s, raise_on_exc, cOk, rOk)
    ELSE rollback_result(s, rOk)

\* SQLAlchemyUnitOfWork._close, the try block: "if exc" is the truth value of
\* the argument tuple, which is true of every non-empty tuple.
_close_try(exc, autocommit, raise_on_exc, s, cOk, rOk) ==
    IF Len(exc) > 0 THEN rollback_result(s, rOk)
    ELSE IF autocommit THEN commit_result(s, raise_on_exc, cOk, rOk)
    ELSE [calls |-> << >>, err |-> "none"]

\* variant: close only when the try block raised nothing
_close_finally_on_success(err) == IF err = "none" THEN <<"close">> ELSE << >>

\* SQLAlchemyUnitOfWork._close, the finally block: always closes
_close_finally(err) == <<"close">>

\* variant: cancelling the awaiting task cancels the teardown too
unshielded(task) == [task EXCEPT !.pc = "cancelled"]

\* asyncio.shield(task) in __aexit__: cancelling the awaiting task leaves
\* the _close task as it is.
shield(task) == task

\* variant: __aexit__ returns True when the teardown raised nothing, which
\* swallows the body's error
aexit_swallows(exc, err) == IF err # "none" THEN err ELSE "none"

\* What the caller of the scope sees when __aexit__ returns: the error of
\* the _close task, else the body's own error (__aexit__ returns None).
aexit_outcome(exc, err) ==
    IF err # "none" THEN err
    ELSE IF Len(exc) > 0 /\ exc[1] # "None" THEN exc[1]
    ELSE "none"

\* A _close task: where it is, its frame (self, exc), the session calls it has
\* made, the error it is raising, and the rows that were pending when it began.
\* A task that has ended keeps its result alone: its frame is released.
NoTask == [pc |-> "none", self |-> NoUoW, exc |-> NoArgs, calls |-> << >>,
           err |-> "none", atExit |-> {}]
Finished(err) == [NoTask EXCEPT !.pc = "done", !.err = err]

Report(t, op, err, sid, calls) ==
    [task |-> t, op |-> op, err |-> err, sid |-> sid, calls |-> calls]

\* The async generator object made by a stream_scalars call: where it is,
\* the session its rows come from, the stream (cursor) it opened, the session
\* it made for itself when none was bound and the calls made on that session,
\* the rows yielded, and whether the consumer has stopped iterating.
NoGen == [pc |-> "none", sid |-> None, cursor |-> "none", session |-> "none",
          calls |-> << >>, yielded |-> 0, stopped |-> FALSE]

\* -------------------------------------------------------------- the state
\* Nothing entered, written or built yet.
InitScopes ==
    /\ _current_session = [c \in Contexts |-> None]
    /\ pc = [t \in Tasks |-> "idle"]
    /\ scope = [t \in Tasks |-> None]
    /\ leaving = [t \in Tasks |-> NoArgs]
    /\ uow = [t \in Tasks |-> NoUoW]
    /\ nextUoW = 0
    /\ created = [s \in SessionIds |-> FALSE]
    /\ closed = [s \in SessionIds |-> FALSE]
    /\ owner = [s \in SessionIds |-> None]
    /\ pending = [s \in SessionIds |-> {}]
    /\ nwrites = [s \in {None} \cup SessionIds |-> 0]
    /\ committed = {}
    /\ byBody = {}
    /\ td = [s \in SessionIds |-> NoTask]
    /\ last = Report(None, "none", "none", None, << >>)
    /\ _repositories = [t \in Tasks |-> << >>]
    /\ built = [t \in Tasks |-> [n \in Names |-> 0]]
    /\ repoOwner = << >>
    /\ nextRepo = 0
    /\ gen = NoGen
    /\ outer = [t \in Tasks |-> << >>]

\* The Database of the tests: Database(url="sqlite+aiosqlite:///:memory:")
Init == InitScopes /\ db = Database("sqlite", <<3, MaxMinor, 0>>)

\* Before the Database is constructed
DbInit == InitScopes /\ db = NoDatabase

\* The session calls `calls` applied to session sid and the database.
Apply(sid, calls) ==
    IF sid \in SessionIds
    THEN LET st == SessionEffect(calls, [pending |-> pending[sid],
                                         committed |-> committed,
                                         closed |-> closed[sid]])
         IN /\ pending' = [pending EXCEPT ![sid] = st.pending]
            /\ committed' = st.committed
            /\ closed' = [closed EXCEPT ![sid] = st.closed]
    ELSE UNCHANGED <<pending, committed, closed>>

\* ---------------------------------------------------------------- actions
\* No action says what `last` becomes: each specification gives, with the
\* call, the report it records (or records nothing).

\* Database(url): __init__ for a url of the dialect, with the sqlite library
\* at version v
Database__init__(dialect, v) ==
    /\ db = NoDatabase
    /\ db' = Database(dialect, v)
    /\ UNCHANGED <<outer, gen, _current_session, taskVars, uowVars, sessVars, dataVars, td, repoVars>>

\* SQLAlchemyUnitOfWork(db, autocommit, raise_on_exc): a new unit of work,
\* with an empty repository dict, replaces the one the task held.
__init__(t, autocommit, raise_on_exc) ==
    /\ pc[t] = "idle"
    /\ nextUoW < MaxUoWs
    /\ nextUoW' = nextUoW + 1
    /\ uow' = [uow EXCEPT ![t] = [autocommit |-> autocommit,
                                  raise_on_exc |-> raise_on_exc,
                                  id |-> nextUoW + 1]]
    /\ _repositories' = [_repositories EXCEPT ![t] = << >>]
    /\ built' = [built EXCEPT ![t] = [n \in Names |-> 0]]
    /\ UNCHANGED <<outer, db, gen, _current_session, taskVars, sessVars, dataVars, td, repoOwner, nextRepo>>

\* async with uow: -- __aenter__ binds a new session in the caller's context
__aenter__(t) ==
    /\ pc[t] = "idle"
    /\ uow[t].id # None
    /\ \E s \in SessionIds : ~created[s]
    /\ LET s == session_maker(created) IN
        /\ created' = [created EXCEPT ![s] = TRUE]
        /\ owner' = [owner EXCEPT ![s] = t]
        /\ _current_session' = set_current_session(_current_session, TaskCtx(t), s)
        /\ scope' = [scope EXCEPT ![t] = s]
    /\ pc' = [pc EXCEPT ![t] = "body"]
    /\ UNCHANGED <<outer, db, gen, leaving, uowVars, closed, dataVars, td, repoVars>>

\* async with uow: entered by task t in the body of a scope of the same
\* unit of work, where a session is bound already.  __aenter__ does what it
\* does anywhere: it makes a session and binds it; the session of the scope
\* around is no longer bound anywhere.
nested__aenter__(t) ==
    /\ pc[t] = "body"
    /\ Len(outer[t]) < MaxDepth - 1
    /\ \E s \in SessionIds : ~created[s]
    /\ LET s == session_maker(created) IN
        /\ created' = [created EXCEPT ![s] = TRUE]
        /\ owner' = [owner EXCEPT ![s] = t]
        /\ _current_session' = set_current_session(_current_session, TaskCtx(t), s)
        /\ scope' = [scope EXCEPT ![t] = s]
    /\ outer' = [outer EXCEPT ![t] = <<scope[t]>> \o @]
    /\ UNCHANGED <<db, gen, pc, leaving, uowVars, closed, dataVars, td, repoVars>>

\* The _close task of a nested scope has ended: task t resumes in the body
\* of the scope around it, with whatever its context now holds as binding.
nested_aexit_resume(t) ==
    /\ pc[t] = "exiting"
    /\ td[scope[t]].pc = "done"
    /\ outer[t] # << >>
    /\ pc' = [pc EXCEPT ![t] = "body"]
    /\ leaving' = [leaving EXCEPT ![t] = NoArgs]
    /\ outer' = [outer EXCEPT ![t] = Tail(@)]
    /\ UNCHANGED <<db, gen, _current_session, scope, uowVars, sessVars, dataVars, td, repoVars>>

\* variant: the except branch re-raises without rolling back
session_factory_no_rollback(bodyOk, cOk, rOk) ==
    IF bodyOk /\ cOk THEN [calls |-> <<"commit", "close", "close">>, err |-> "none"]
    ELSE [calls |-> (IF bodyOk THEN <<"commit!">> ELSE << >>) \o <<"close", "close">>,
          err |-> IF bodyOk THEN "CommitError" ELSE "ExecError"]

\* Database.session_factory, the context manager Database.session(): the
\* session calls made around a body that ends normally (bodyOk) or raises.
\* The trailing close is the exit of "async with self.session_maker()".
session_factory(bodyOk, cOk, rOk) ==
    IF bodyOk /\ cOk THEN [calls |-> <<"commit", "close", "close">>, err |-> "none"]
    ELSE [calls |-> (IF bodyOk THEN <<"commit!">> ELSE << >>)
                    \o <<Mark("rollback", rOk), "close", "close">>,
          err |-> IF ~rOk THEN "RollbackError"
                  ELSE IF bodyOk THEN "CommitError" ELSE "ExecError"]

\* The report of Database.execute
execute_report(t, ok, cOk, rOk) ==
    LET s == current_session(_current_session, TaskCtx(t)) IN
    IF in_session_context(_current_session, TaskCtx(t))
    THEN Report(t, "execute", IF ok THEN "none" ELSE "ExecError", s, <<Mark("execute", ok)>>)
    ELSE Report(t, "execute", session_factory(ok, cOk, rOk).err, Implicit,
                <<Mark("execute", ok)>> \o session_factory(ok, cOk, rOk).calls)

\* Database.execute(query) called by task t; the statement succeeds (ok) or
\* raises.  With a session bound it runs on that session, else on a session
\* of its own from Database.session().  A statement that succeeds writes a row.
execute(t, ok, cOk, rOk) ==
    /\ pc[t] \in {"idle", "body"}
    /\ LET s == current_session(_current_session, TaskCtx(t))
           row == <<s, nwrites[s] + 1>>
       IN
        /\ nwrites[s] < MaxWrites
        /\ nwrites' = IF ok THEN [nwrites EXCEPT ![s] = @ + 1] ELSE nwrites
        /\ IF in_session_context(_current_session, TaskCtx(t))
           THEN /\ pending' = [pending EXCEPT ![s] = IF ok THEN @ \cup {row} ELSE @]
                /\ UNCHANGED <<committed, byBody>>
           ELSE LET r == session_factory(ok, cOk, rOk)
                    st == SessionEffect(r.calls,
                              [pending |-> IF ok THEN {row} ELSE {},
                               committed |-> committed, closed |-> FALSE])
                IN /\ committed' = st.committed
                   /\ UNCHANGED <<pending, byBody>>
    /\ UNCHANGED <<outer, db, gen, _current_session, taskVars, uowVars, sessVars, td, repoVars>>

\* The report of uow.commit()
commit_report(t, cOk, rOk) ==
    LET s == current_session(_current_session, TaskCtx(t))
        r == commit_result(s, uow[t].raise_on_exc, cOk, rOk)
    IN Report(t, "commit", r.err, s, r.calls)

\* uow.commit() called by task t
commit(t, cOk, rOk) ==
    /\ pc[t] \in {"idle", "body"}
    /\ uow[t].id # None
    /\ LET s == current_session(_current_session, TaskCtx(t))
           r == commit_result(s, uow[t].raise_on_exc, cOk, rOk)
       IN /\ Apply(s, r.calls)
          /\ byBody' = byBody \cup (committed' \ committed)
    /\ UNCHANGED <<outer, db, gen, _current_session, taskVars, uowVars, created, owner, nwrites, td, repoVars>>

\* The report of uow.rollback()
rollback_report(t, rOk) ==
    LET s == current_session(_current_session, TaskCtx(t))
        r == rollback_result(s, rOk)
    IN Report(t, "rollback", r.err, s, r.calls)

\* uow.rollback() called by task t
rollback(t, rOk) ==
    /\ pc[t] \in {"idle", "body"}
    /\ uow[t].id # None
    /\ LET s == current_session(_current_session, TaskCtx(t))
           r == rollback_result(s, rOk)
       IN Apply(s, r.calls)
    /\ UNCHANGED <<outer, db, gen, _current_session, taskVars, uowVars, created, owner, nwrites, byBody,
                   td, repoVars>>

\* The report of reading uow.session: the bound session, or AttributeError
session_report(t) ==
    LET s == current_session(_current_session, TaskCtx(t)) IN
    Report(t, "session", IF session_raises(s) THEN "AttributeError" ELSE "none", s, << >>)

\* uow.session read by task t
session(t) ==
    /\ pc[t] \in {"idle", "body"}
    /\ uow[t].id # None
    /\ UNCHANGED <<outer, db, gen, _current_session, taskVars, uowVars, sessVars, dataVars, td, repoVars>>

\* The report of reading db.current_session: the value of the ContextVar
current_session_report(t) ==
    Report(t, "current_session", "none",
           current_session(_current_session, TaskCtx(t)), << >>)

\* db.current_session read by task t
get_current_session(t) ==
    /\ pc[t] \in {"idle", "body"}
    /\ UNCHANGED <<outer, db, gen, _current_session, taskVars, uowVars, sessVars, dataVars, td, repoVars>>

\* uow.__aexit__(*exc) called by task t at the end of its scope: the _close
\* task is created, in a copy of t's context, and t awaits it shielded.
__aexit__(t, exc) ==
    /\ pc[t] = "body"
    /\ LET s == current_session(_current_session, TaskCtx(t)) IN
        /\ s \in SessionIds
        /\ td[s].pc \in {"none", "done"}
        /\ _current_session' = create_task_context(_current_session, TaskCtx(t), CloseCtx(s))
        /\ td' = [td EXCEPT ![s] = [pc |-> "try", self |-> uow[t], exc |-> exc,
                                    calls |-> << >>, err |-> "none",
                                    atExit |-> pending[s]]]
    /\ leaving' = [leaving EXCEPT ![t] = exc]
    /\ pc' = [pc EXCEPT ![t] = "exiting"]
    /\ UNCHANGED <<outer, db, gen, scope, uowVars, sessVars, dataVars, repoVars>>

\* The _close task of session s runs its try block.
_close_body(s, cOk, rOk) ==
    /\ td[s].pc = "try"
    /\ LET sid == current_session(_current_session, CloseCtx(s))
           r == _close_try(td[s].exc, td[s].self.autocommit, td[s].self.raise_on_exc,
                           sid, cOk, rOk)
       IN /\ Apply(sid, r.calls)
          /\ td' = [td EXCEPT ![s].pc = "finally", ![s].calls = r.calls, ![s].err = r.err]
    /\ UNCHANGED <<outer, db, gen, _current_session, taskVars, uowVars, created, owner, nwrites, byBody,
                   repoVars>>

\* The _close task of session s runs its finally block and ends.
_close_teardown(s) ==
    /\ td[s].pc = "finally"
    /\ LET sid == current_session(_current_session, CloseCtx(s))
           calls == IF session_raises(sid) THEN << >> ELSE _close_finally(td[s].err)
       IN /\ Apply(sid, calls)
          /\ _current_session' =
                IF calls = << >> THEN _current_session
                ELSE current_session_setter(_current_session, CloseCtx(s), None)
          /\ td' = [td EXCEPT ![s] = Finished(IF session_raises(sid) THEN "AttributeError"
                                               ELSE td[s].err)]
    /\ UNCHANGED <<outer, db, gen, taskVars, uowVars, created, owner, nwrites, byBody, repoVars>>

\* The report of __aexit__ when the _close task has ended
aexit_report(t) ==
    Report(t, "__aexit__", aexit_outcome(leaving[t], td[scope[t]].err), scope[t], << >>)

\* The _close task has ended: task t resumes after "await asyncio.shield(task)"
\* and the async-with statement ends; a CancelledError that leaves it ends t.
aexit_resume(t) ==
    /\ pc[t] = "exiting"
    /\ td[scope[t]].pc = "done"
    /\ pc' = [pc EXCEPT ![t] = IF aexit_outcome(leaving[t], td[scope[t]].err) = "CancelledError"
                                THEN "cancelled" ELSE "idle"]
    /\ leaving' = [leaving EXCEPT ![t] = NoArgs]
    /\ uow' = [uow EXCEPT ![t] = NoUoW]
    /\ UNCHANGED <<outer, db, gen, _current_session, scope, nextUoW, sessVars, dataVars, td, repoVars>>

\* The report of an __aexit__ that is cancelled
cancel_report(t) == Report(t, "__aexit__", "CancelledError", scope[t], << >>)

\* Task t is cancelled while it awaits the shielded _close task: the await
\* raises CancelledError in t at once, which ends t.
cancel(t) ==
    /\ pc[t] = "exiting"
    /\ td[scope[t]].pc \in {"try", "finally"}
    /\ td' = [td EXCEPT ![scope[t]] = shield(@)]
    /\ pc' = [pc EXCEPT ![t] = "cancelled"]
    /\ uow' = [uow EXCEPT ![t] = NoUoW]
    /\ UNCHANGED <<outer, db, gen, _current_session, scope, leaving, nextUoW, sessVars, dataVars, repoVars>>

\* The report of "async with db.session() as session: <body>": the outcome
\* of the body, then the session calls of session_factory, and the error that
\* leaves the with statement ("ExecError" of session_factory is the error the
\* body raised).
session_scope_report(t, body, cOk, rOk) ==
    LET r == session_factory(body = "none", cOk, rOk) IN
    Report(t, "session()", IF r.err = "ExecError" THEN body ELSE r.err, Implicit,
           <<body>> \o r.calls)

\* async with db.session() as session: <body>, run by task t.  The body
\* writes a row on the session and then ends normally, raises, or is
\* cancelled (body is "none", "BodyError" or "CancelledError").
session_scope(t, body, cOk, rOk) ==
    /\ pc[t] \in {"idle", "body"}
    /\ nwrites[None] < MaxWrites
    /\ LET row == <<None, nwrites[None] + 1>>
           r == session_factory(body = "none", cOk, rOk)
           st == SessionEffect(r.calls, [pending |-> {row}, committed |-> committed,
                                         closed |-> FALSE])
       IN /\ committed' = st.committed
          /\ nwrites' = [nwrites EXCEPT ![None] = @ + 1]
    /\ UNCHANGED <<outer, db, gen, _current_session, taskVars, uowVars, sessVars, pending, byBody,
                   td, repoVars>>

\* db.stream_scalars(query): the call makes the generator object; nothing of
\* its body runs yet.
stream_scalars(t) ==
    /\ pc[t] \in {"idle", "body"}
    /\ gen.pc = "none"
    /\ gen' = [gen EXCEPT !.pc = "created"]
    /\ UNCHANGED <<outer, db, _current_session, taskVars, uowVars, sessVars, dataVars, td, repoVars>>

\* The generator of stream_scalars at its first step: the session it streams
\* from (the bound one, else one of its own from self.session()) and the
\* stream it opens on it in _stream_scalars.
stream_open(g, cv, ctx) ==
    IF g.pc # "created" THEN g
    ELSE IF in_session_context(cv, ctx)
    THEN [g EXCEPT !.sid = current_session(cv, ctx), !.cursor = "open"]
    ELSE [g EXCEPT !.sid = Implicit, !.session = "open", !.cursor = "open"]

\* The generator runs to the end of its rows: "async with
\* session.stream_scalars(...)" exits, which closes the stream, and a session
\* of its own leaves "async with self.session()".
stream_exhausted(g, cOk, rOk) ==
    IF g.session = "open"
    THEN [g EXCEPT !.pc = "finished", !.cursor = "closed", !.session = "closed",
                   !.calls = session_factory(TRUE, cOk, rOk).calls]
    ELSE [g EXCEPT !.pc = "finished", !.cursor = "closed"]

\* One step of "async for row in db.stream_scalars(query)": the consumer asks
\* for the next row; the generator yields one (more) or runs to its end.
anext(t, more, cOk, rOk) ==
    /\ pc[t] \in {"idle", "body"}
    /\ gen.pc \in {"created", "suspended"}
    /\ ~gen.stopped
    /\ LET g == stream_open(gen, _current_session, TaskCtx(t)) IN
        gen' = IF more /\ g.yielded < MaxRows
               THEN [g EXCEPT !.pc = "suspended", !.yielded = @ + 1]
               ELSE stream_exhausted(g, cOk, rOk)
    /\ UNCHANGED <<outer, db, _current_session, taskVars, uowVars, sessVars, dataVars, td, repoVars>>

\* The consumer leaves the loop before the rows are exhausted ("break"): the
\* generator stays suspended at its yield; no code of stream_scalars runs.
stop_iterating(t) ==
    /\ pc[t] \in {"idle", "body"}
    /\ gen.pc = "suspended"
    /\ ~gen.stopped
    /\ gen' = [gen EXCEPT !.stopped = TRUE]
    /\ UNCHANGED <<outer, db, _current_session, taskVars, uowVars, sessVars, dataVars, td, repoVars>>

\* The suspended generator is closed: by the consumer's aclose(), or by the
\* event loop once the object is garbage.  GeneratorExit is raised at the
\* yield of stream_scalars: a session of its own leaves "async with
\* self.session()" by the except branch.  The generator of _stream_scalars is
\* dropped with the frame and is closed by the event loop in its turn, during
\* the awaits of this exit (innerFirst) or after it.
aclose(rOk, innerFirst) ==
    /\ gen.pc = "suspended"
    /\ gen.stopped
    /\ gen' = [gen EXCEPT !.pc = "closed",
                          !.cursor = IF innerFirst THEN "closed" ELSE @,
                          !.session = IF @ = "open" THEN "closed" ELSE @,
                          !.calls = IF gen.session = "open"
                                    THEN session_factory(FALSE, TRUE, rOk).calls ELSE @]
    /\ UNCHANGED <<outer, db, _current_session, taskVars, uowVars, sessVars, dataVars, td, repoVars>>

\* The event loop closes the dropped generator of _stream_scalars: its
\* "async with session.stream_scalars(...)" exits and closes the stream.
inner_aclose ==
    /\ gen.pc = "closed"
    /\ gen.cursor = "open"
    /\ gen' = [gen EXCEPT !.cursor = "closed"]
    /\ UNCHANGED <<outer, db, _current_session, taskVars, uowVars, sessVars, dataVars, td, repoVars>>

\* get_type_hints(self).get(item): the repository class annotated for the
\* name, or None
repository_cls(item) == IF item \in Declared THEN item ELSE "None"

\* variant: a lookup that never finds the cached instance
never_in_repositories(repositories, item) == FALSE

\* "item not in self._repositories", negated
in_repositories(repositories, item) == item \in DOMAIN repositories

\* self._repositories[item] = value
setitem(repositories, item, value) ==
    [n \in DOMAIN repositories \cup {item} |->
        IF n = item THEN value ELSE repositories[n]]

\* variant: the name is entered in the dict before the error is raised
unresolved_entered(repositories, item) == setitem(repositories, item, None)

\* __getattr__ when the annotation does not resolve: the dict is left as it
\* is and AttributeError is raised
unresolved(repositories, item) == repositories

\* The report of uow.<item>: the repository instance, or AttributeError
getattr_report(t, item) ==
    IF in_repositories(_repositories[t], item)
    THEN Report(t, "__getattr__", "none", _repositories[t][item], <<item>>)
    ELSE IF repository_cls(item) = "None"
    THEN Report(t, "__getattr__", "AttributeError", None, <<item>>)
    ELSE Report(t, "__getattr__", "none", nextRepo + 1, <<item>>)

\* uow.<item> read by task t: SQLAlchemyUnitOfWork.__getattr__(item)
__getattr__(t, item) ==
    /\ uow[t].id # None
    /\ IF in_repositories(_repositories[t], item)
       THEN UNCHANGED repoVars
       ELSE IF repository_cls(item) = "None"
       THEN /\ _repositories' = [_repositories EXCEPT ![t] = unresolved(@, item)]
            /\ UNCHANGED <<built, repoOwner, nextRepo>>
       ELSE /\ nextRepo < MaxRepos
            /\ nextRepo' = nextRepo + 1
            /\ repoOwner' = Append(repoOwner, uow[t].id)
            /\ built' = [built EXCEPT ![t][item] = @ + 1]
            /\ _repositories' = [_repositories EXCEPT ![t] = setitem(@, item, nextRepo + 1)]
    /\ UNCHANGED <<outer, db, gen, _current_session, taskVars, uowVars, sessVars, dataVars, td>>

\* ------------------------------------------------------- specifications

\* Scopes of concurrent tasks: every task constructs a unit of work, enters
\* its scope and leaves it, normally, by an error or by a cancellation; the
\* _close tasks run interleaved with everything else.
Next ==
    /\ UNCHANGED last
    /\ \/ \E t \in Tasks, a \in BOOLEAN, r \in BOOLEAN :
             uow[t].id = None /\ __init__(t, a, r)
       \/ \E t \in Tasks : __aenter__(t)
       \/ \E t \in Tasks, exc \in ExcArgs : __aexit__(t, exc)
       \/ \E s \in SessionIds, cOk \in BOOLEAN, rOk \in BOOLEAN : _close_body(s, cOk, rOk)
       \/ \E s \in SessionIds : _close_teardown(s)
       \/ \E t \in Tasks : aexit_resume(t)
       \/ \E t \in Tasks : cancel(t)

Spec == Init /\ [][Next]_vars

\* The same under fair scheduling: the event loop runs every task that can
\* run, so a _close task that is ready takes its next step, and the body of
\* a scope ends.
LiveSpec ==
    /\ Init
    /\ [][Next]_vars
    /\ \A s \in SessionIds :
          /\ WF_vars(\E cOk \in BOOLEAN, rOk \in BOOLEAN : _close_body(s, cOk, rOk) /\ UNCHANGED last)
          /\ WF_vars(_close_teardown(s) /\ UNCHANGED last)
    /\ \A t \in Tasks : WF_vars(\E exc \in ExcArgs : __aexit__(t, exc) /\ UNCHANGED last)

\* One task working on rows: inside its scopes it executes statements and
\* commits explicitly; its scopes end in every way.
RowNext ==
    /\ UNCHANGED last
    /\ \/ \E a \in BOOLEAN, r \in BOOLEAN : uow[1].id = None /\ __init__(1, a, r)
       \/ __aenter__(1)
       \/ \E ok \in BOOLEAN : pc[1] = "body" /\ execute(1, ok, TRUE, TRUE)
       \/ \E cOk \in BOOLEAN, rOk \in BOOLEAN : pc[1] = "body" /\ commit(1, cOk, rOk)
       \/ \E exc \in ExcArgs : __aexit__(1, exc)
       \/ \E s \in SessionIds, cOk \in BOOLEAN, rOk \in BOOLEAN : _close_body(s, cOk, rOk)
       \/ \E s \in SessionIds : _close_teardown(s)
       \/ aexit_resume(1)
       \/ cancel(1)

RowSpec == Init /\ [][RowNext]_vars

\* One task and the calls it can make at any point, each with the report of
\* what the call did and raised.
CallNext ==
    \/ \E a \in BOOLEAN, r \in BOOLEAN :
          /\ uow[1].id = None
          /\ __init__(1, a, r)
          /\ last' = Report(1, "__init__", "none", None, << >>)
    \/ __aenter__(1) /\ last' = Report(1, "__aenter__", "none", None, << >>)
    \/ \E ok \in BOOLEAN, cOk \in BOOLEAN, rOk \in BOOLEAN :
          /\ ~in_session_context(_current_session, TaskCtx(1))
          /\ execute(1, ok, cOk, rOk)
          /\ last' = execute_report(1, ok, cOk, rOk)
    \/ \E cOk \in BOOLEAN, rOk \in BOOLEAN :
          commit(1, cOk, rOk) /\ last' = commit_report(1, cOk, rOk)
    \/ \E rOk \in BOOLEAN : rollback(1, rOk) /\ last' = rollback_report(1, rOk)
    \/ session(1) /\ last' = session_report(1)
    \/ get_current_session(1) /\ last' = current_session_report(1)
    \/ \E exc \in ExcArgs : __aexit__(1, exc) /\ UNCHANGED last
    \/ \E s \in SessionIds, cOk \in BOOLEAN, rOk \in BOOLEAN :
          _close_body(s, cOk, rOk) /\ UNCHANGED last
    \/ \E s \in SessionIds : _close_teardown(s) /\ UNCHANGED last
    \/ aexit_resume(1) /\ last' = aexit_report(1)
    \/ cancel(1) /\ last' = cancel_report(1)

CallSpec == Init /\ [][CallNext]_vars

\* Units of work and the repositories asked of them.
RepoNext ==
    \/ \E t \in Tasks, a \in BOOLEAN, r \in BOOLEAN :
          __init__(t, a, r) /\ last' = Report(t, "__init__", "none", None, << >>)
    \/ \E t \in Tasks, item \in Names :
          __getattr__(t, item) /\ last' = getattr_report(t, item)

RepoSpec == Init /\ [][RepoNext]_vars

\* The report of the options a call handed on to the session
options_report(t, args, kwargs) ==
    [task |-> t, op |-> "options", err |-> "none", sid |-> None, calls |-> << >>,
     args |-> args, kwargs |-> kwargs, sent |-> execution_options(args, kwargs)]

\* The Database from its construction on: it is constructed for a dialect,
\* then one task runs statements on it, outside and inside a scope that
\* ends normally.
DbNext ==
    \/ \E dialect \in Dialects, v \in Versions :
          Database__init__(dialect, v) /\ UNCHANGED last
    \/ /\ db # NoDatabase /\ nextUoW = 0
       /\ __init__(1, TRUE, TRUE) /\ UNCHANGED last
    \/ __aenter__(1) /\ UNCHANGED last
    \/ \E args \in {<< >>, <<"opt">>}, kwargs \in {{}, {<<"timeout", "5">>}} :
          /\ db # NoDatabase
          /\ execute(1, TRUE, TRUE, TRUE)
          /\ last' = options_report(1, args, kwargs)
    \/ __aexit__(1, NoneTriple) /\ UNCHANGED last
    \/ \E s \in SessionIds : _close_body(s, TRUE, TRUE) /\ UNCHANGED last
    \/ \E s \in SessionIds : _close_teardown(s) /\ UNCHANGED last
    \/ aexit_resume(1) /\ UNCHANGED last

DbSpec == DbInit /\ [][DbNext]_vars

\* One task using the Database directly, outside and inside its one scope:
\* statements, sessions of its own from db.session(), and a stream.
SessNext ==
    \/ /\ nextUoW = 0
       /\ __init__(1, TRUE, TRUE) /\ UNCHANGED last
    \/ __aenter__(1) /\ UNCHANGED last
    \/ \E ok \in BOOLEAN, cOk \in BOOLEAN, rOk \in BOOLEAN :
          execute(1, ok, cOk, rOk) /\ last' = execute_report(1, ok, cOk, rOk)
    \/ \E body \in {"none", "BodyError", "CancelledError"}, cOk \in BOOLEAN, rOk \in BOOLEAN :
          session_scope(1, body, cOk, rOk) /\ last' = session_scope_report(1, body, cOk, rOk)
    \/ stream_scalars(1) /\ UNCHANGED last
    \/ \E more \in BOOLEAN, cOk \in BOOLEAN, rOk \in BOOLEAN :
          anext(1, more, cOk, rOk) /\ UNCHANGED last
    \/ stop_iterating(1) /\ UNCHANGED last
    \/ \E rOk \in BOOLEAN, innerFirst \in BOOLEAN : aclose(rOk, innerFirst) /\ UNCHANGED last
    \/ inner_aclose /\ UNCHANGED last
    \/ \E exc \in {NoneTriple, ErrorTriple} : __aexit__(1, exc) /\ UNCHANGED last
    \/ \E s \in SessionIds : _close_body(s, TRUE, TRUE) /\ UNCHANGED last
    \/ \E s \in SessionIds : _close_teardown(s) /\ UNCHANGED last
    \/ aexit_resume(1) /\ UNCHANGED last

SessSpec == Init /\ [][SessNext]_vars

\* One task whose scopes nest: inside the body of a scope it may enter the
\* unit of work again, and it leaves the scopes innermost first.
NestNext ==
    /\ UNCHANGED last
    /\ \/ \E a \in BOOLEAN, r \in BOOLEAN : uow[1].id = None /\ __init__(1, a, r)
       \/ __aenter__(1)
       \/ nested__aenter__(1)
       \/ \E exc \in ExcArgs : __aexit__(1, exc)
       \/ \E s \in SessionIds, cOk \in BOOLEAN, rOk \in BOOLEAN : _close_body(s, cOk, rOk)
       \/ \E s \in SessionIds : _close_teardown(s)
       \/ nested_aexit_resume(1)
       \/ outer[1] = << >> /\ aexit_resume(1)

NestSpec == Init /\ [][NestNext]_vars

\* ------------------------------------------------------------- the claims
Left(t) == pc[t] \in {"idle", "cancelled"} /\ scope[t] # None
NormalExit(exc) == exc = NoArgs \/ exc = NoneTriple
ErrorExit(exc) == Len(exc) > 0 /\ exc[1] # "None"
Committing(calls) == \E i \in 1 .. Len(calls) : calls[i] \in {"commit", "commit!"}
RollingBack(calls) == \E i \in 1 .. Len(calls) : calls[i] \in {"rollback", "rollback!"}
Rows(s) == {<<s, k>> : k \in 1 .. nwrites[s]}

\* C1: once a task has left a scope and the scope's _close task has ended,
\* no session is bound in the task's own context: db.current_session read
\* there is None.
C1_NoBindingAfterExit ==
    \A t \in Tasks :
        (Left(t) /\ td[scope[t]].pc = "done")
            => current_session(_current_session, TaskCtx(t)) = None

\* C2: when a scope of a unit of work with autocommit=True exits normally,
\* the exit has invoked commit on the session, and no rollback in place of
\* it, by the time it goes on to close the session.
C2_NormalExitCommits ==
    \A s \in SessionIds :
        (td[s].pc = "finally" /\ NormalExit(td[s].exc) /\ td[s].self.autocommit)
            => /\ Len(td[s].calls) > 0
               /\ td[s].calls[1] \in {"commit", "commit!"}

\* C3: an exit caused by an error of the body rolls the session back and
\* never invokes commit; an exit of a unit of work with autocommit=False
\* invokes no commit either, so the only commits applied to its session are
\* the explicit ones of the body.  In both cases the rows written since the
\* last explicit commit are not committed: only rows committed by the body's
\* own commit() calls are visible to later scopes.
C3_NoCommitOnErrorOrManual ==
    \A s \in SessionIds :
        /\ (td[s].pc = "finally" /\ ErrorExit(td[s].exc))
              => /\ RollingBack(td[s].calls)
                 /\ ~Committing(td[s].calls)
                 /\ td[s].atExit \cap committed = {}
                 /\ Rows(s) \cap committed \subseteq byBody
        /\ (td[s].pc = "finally" /\ ~td[s].self.autocommit)
              => /\ ~Committing(td[s].calls)
                 /\ td[s].atExit \cap committed = {}
                 /\ Rows(s) \cap committed \subseteq byBody
        /\ \A t \in Tasks :
              (pc[t] = "exiting" /\ scope[t] = s /\ td[s].pc = "done"
                 /\ (ErrorExit(leaving[t]) \/ ~uow[t].autocommit))
              => /\ Rows(s) \cap committed \subseteq byBody
                 /\ pending[s] = {}

C3_Witness ==
    \E s \in SessionIds, t \in Tasks :
        /\ pc[t] = "exiting" /\ scope[t] = s /\ td[s].pc = "done"
        /\ leaving[t] = ErrorTriple
        /\ uow[t].autocommit
        /\ nwrites[s] > 0
        /\ Rows(s) \cap byBody # {}
        /\ Rows(s) \ committed # {}

\* C4: every exit ends with the scope's session closed and the binding of
\* the scope's context reset, also when the rollback or commit of the exit
\* raised.
C4_TeardownClosesAndResets ==
    \A s \in SessionIds :
        td[s].pc = "done"
            => /\ closed[s]
               /\ current_session(_current_session, TaskCtx(owner[s])) # s

\* C5: under fair scheduling every session made by a scope entry is closed
\* in the end, whether the owning task is cancelled in the body, cancelled
\* while it awaits the teardown, or not at all.
C5_EverySessionClosed == \A s \in SessionIds : created[s] ~> closed[s]

C5_Witness ==
    \E t \in Tasks :
        /\ pc[t] = "cancelled"
        /\ scope[t] # None
        /\ leaving[t] = NoneTriple
        /\ td[scope[t]].pc = "done"
        /\ closed[scope[t]]

\* C6: a task never reads, as its current session, a session made for
\* another task, and no step of a task or of the _close task of its scope
\* changes what another task reads.
StepOf(b) ==
    \/ \E a \in BOOLEAN, r \in BOOLEAN : __init__(b, a, r)
    \/ __aenter__(b)
    \/ \E exc \in ExcArgs : __aexit__(b, exc)
    \/ \E s \in SessionIds, cOk \in BOOLEAN, rOk \in BOOLEAN :
          owner[s] = b /\ _close_body(s, cOk, rOk)
    \/ \E s \in SessionIds : owner[s] = b /\ _close_teardown(s)
    \/ aexit_resume(b)
    \/ cancel(b)

C6_ContextsIsolated ==
    /\ [](\A a \in Tasks :
            LET s == current_session(_current_session, TaskCtx(a)) IN
            s # None => owner[s] = a)
    /\ [][\A b \in Tasks : StepOf(b) =>
            \A a \in Tasks \ {b} :
                current_session(_current_session, TaskCtx(a))'
                    = current_session(_current_session, TaskCtx(a))]_vars

C6_Witness ==
    \E a \in Tasks, b \in Tasks :
        /\ a # b
        /\ pc[a] = "body"
        /\ current_session(_current_session, TaskCtx(a)) = scope[a]
        /\ scope[b] # None /\ scope[b] # scope[a]
        /\ td[scope[b]].pc = "done"

\* The last call was made with no session bound in the caller's context.
Unbound == last.sid \in {None, Implicit}
CommitFailed == last.op = "commit" /\ last.calls # << >> /\ last.calls[1] = "commit!"

\* C7 (as stated): when the commit of uow.commit() fails a rollback is
\* attempted and the commit error is then re-raised if raise_on_exc is True
\* and swallowed if it is False; when the commit succeeds no rollback is issued.
C7_CommitErrorDecidedByFlag ==
    /\ CommitFailed
          => /\ RollingBack(last.calls)
             /\ last.err = IF uow[last.task].raise_on_exc THEN "CommitError" ELSE "none"
    /\ (last.op = "commit" /\ last.calls # << >> /\ last.calls[1] = "commit")
          => ~RollingBack(last.calls)

\* C7 (amended): when the commit of uow.commit() fails a rollback of the same
\* session is attempted before commit() returns or raises.  If that rollback
\* succeeds, the commit error is re-raised when raise_on_exc is True and
\* swallowed when it is False; if the rollback raises too, its error reaches
\* the caller whatever raise_on_exc is.  When the commit succeeds, commit is
\* the only session call and nothing is raised.
C7_RollbackThenFlag ==
    (last.op = "commit" /\ last.sid # None) =>
        \/ last.calls = <<"commit">> /\ last.err = "none"
        \/ /\ last.calls = <<"commit!", "rollback">>
           /\ last.err = IF uow[last.task].raise_on_exc THEN "CommitError" ELSE "none"
           /\ pending[last.sid] = {}
        \/ last.calls = <<"commit!", "rollback!">> /\ last.err = "RollbackError"

C7_Witness ==
    /\ last.op = "commit"
    /\ last.calls = <<"commit!", "rollback">>
    /\ ~uow[last.task].raise_on_exc
    /\ last.err = "none"

C11_PolicyTable ==
    /\ [](db # NoDatabase =>
            /\ db.dialect = "postgresql"
                  => /\ db.supports_returning
                     /\ db.supports_on_conflict
                     /\ db.insert = "postgresql.insert"
            /\ db.dialect = "sqlite"
                  => /\ db.supports_on_conflict
                     /\ db.insert = "sqlite.insert"
            /\ db.dialect \notin {"postgresql", "sqlite"}
                  => /\ ~db.supports_returning
                     /\ ~db.supports_on_conflict
                     /\ db.insert = "sa.insert")
    /\ [][db # NoDatabase => db' = db]_vars

C11_Witness ==
    /\ db.dialect = "sqlite"
    /\ db.supports_on_conflict
    /\ committed # {}
    /\ \E s \in SessionIds : closed[s]

\* Dotted versions compared as numbers, component by component
RECURSIVE version_gt(_, _)
version_gt(v, w) ==
    IF v = << >> THEN FALSE
    ELSE IF w = << >> THEN TRUE
    ELSE IF Head(v) # Head(w) THEN Head(v) > Head(w)
    ELSE version_gt(Tail(v), Tail(w))

\* C16: for the sqlite dialect supports_returning is true exactly when the
\* version of the sqlite library, compared as a dotted number, is greater
\* than 3.35.
C16_ReturningByNumericVersion ==
    db.dialect = "sqlite" => (db.supports_returning <=> version_gt(db.version, <<3, 35>>))

\* C15: the options handed on to the session are exactly the caller's
\* positional and keyword options, the defaults standing in only when the
\* caller gave none at all.
C15_CallerOptionsForwarded ==
    last.op = "options" =>
        last.sent = IF last.args = << >> /\ last.kwargs = {}
                    THEN default_execution_options
                    ELSE <<last.args, last.kwargs>>

\* Task t's exit hands control back to t in this step.
HandsBack(t) == pc[t] = "exiting" /\ pc'[t] # "exiting"

\* C13 (as stated): whenever an exit hands control back to the caller, by
\* returning, by an error or by a cancellation delivered while the exit
\* awaits the teardown, the scope's session has been closed.
C13_ClosedWhenControlReturns ==
    [][\A t \in Tasks : HandsBack(t) => closed[scope[t]]]_vars

\* C13 (amended): when an exit hands control back by returning or by raising
\* the error of the body or of the teardown, the _close task has ended and
\* the scope's session has been closed.  When a cancellation is delivered
\* while the exit awaits the teardown, the cancellation reaches the caller at
\* once: the _close task is then still running, untouched by the
\* cancellation, and closes the session afterwards.
C13_ClosedUnlessCancelledInExit ==
    [][\A t \in Tasks : HandsBack(t) =>
          \/ /\ td[scope[t]].pc = "done"
             /\ closed[scope[t]]
             /\ UNCHANGED <<td, closed>>
          \/ /\ pc'[t] = "cancelled"
             /\ td[scope[t]].pc \in {"try", "finally"}
             /\ ~closed[scope[t]]
             /\ UNCHANGED <<td, closed>>]_vars

C13_Witness ==
    \E t \in Tasks :
        /\ pc[t] = "idle" /\ scope[t] # None
        /\ td[scope[t]].pc = "done"
        /\ td[scope[t]].err = "RollbackError"
        /\ closed[scope[t]]

\* C19: when the body of a scope raised E and the rollback and the close of
\* the exit have succeeded, the exit hands E itself to the caller, whatever
\* autocommit and raise_on_exc are.
C19_BodyErrorReachesCaller ==
    [][(/\ HandsBack(1)
        /\ ErrorExit(leaving[1])
        /\ td[scope[1]].pc = "done"
        /\ td[scope[1]].err = "none")
          => /\ last'.op = "__aexit__"
             /\ last'.err = leaving[1][1]
             /\ last'.sid = scope[1]
             /\ closed[scope[1]]]_vars

C19_Witness ==
    /\ last.op = "__aexit__"
    /\ last.err = "BodyError"
    /\ pc[1] = "idle"
    /\ td[last.sid].err = "none"
    /\ closed[last.sid]

\* The body outcome and the session calls of the last db.session() block
BodyOf(r) == r.calls[1]
CallsOf(r) == Tail(r.calls)

\* C17 (as stated): a session from db.session() is committed exactly when the
\* body ends without raising; it is rolled back and the error (of the body,
\* of the commit, or the cancellation) re-raised otherwise; it is closed last
\* on every path.
C17_LifecycleAsStated ==
    last.op = "session()" =>
        /\ (BodyOf(last) = "none") <=> Committing(CallsOf(last))
        /\ BodyOf(last) # "none" => RollingBack(CallsOf(last)) /\ last.err = BodyOf(last)
        /\ (BodyOf(last) = "none" /\ CallsOf(last)[1] = "commit!")
              => RollingBack(CallsOf(last)) /\ last.err = "CommitError"
        /\ (BodyOf(last) = "none" /\ CallsOf(last)[1] = "commit")
              => ~RollingBack(CallsOf(last)) /\ last.err = "none"
        /\ last.calls[Len(last.calls)] = "close"

\* C17 (amended): a session from db.session() is committed exactly when the
\* body ends without raising; when the body raises or is cancelled, or the
\* commit raises, it is rolled back, and the error re-raised is that error if
\* the rollback succeeds and the rollback's own error if the rollback raises;
\* it is closed last on every path.  Only a successful commit makes the
\* body's row visible, and the session is never bound in the caller's context.
C17_LifecycleRollbackMayReplace ==
    /\ [](last.op = "session()" =>
            /\ (BodyOf(last) = "none") <=> Committing(CallsOf(last))
            /\ CallsOf(last)[1] \in {"commit", "commit!", "rollback", "rollback!"}
            /\ BodyOf(last) # "none" => RollingBack(CallsOf(last))
            /\ CallsOf(last)[1] = "commit!" => RollingBack(CallsOf(last))
            /\ CallsOf(last)[1] = "commit"
                  => ~RollingBack(CallsOf(last)) /\ last.err = "none"
            /\ (\E i \in 1 .. Len(last.calls) : last.calls[i] = "rollback!")
                  => last.err = "RollbackError"
            /\ (\E i \in 1 .. Len(last.calls) : last.calls[i] = "rollback")
                  => last.err = IF BodyOf(last) # "none" THEN BodyOf(last) ELSE "CommitError"
            /\ last.calls[Len(last.calls)] = "close"
            /\ Len(CallsOf(last)) >= 3)
    /\ [][(last' # last /\ last'.op = "session()")
            => /\ UNCHANGED <<_current_session, sessVars, pending>>
               /\ (<<None, nwrites'[None]>> \in committed') <=> (last'.err = "none")
               /\ committed \subseteq committed']_vars

C17_Witness ==
    /\ last.op = "session()"
    /\ last.calls = <<"CancelledError", "rollback", "close", "close">>
    /\ last.err = "CancelledError"
    /\ <<None, nwrites[None]>> \notin committed
    /\ pc[1] = "body"

\* C18: with a session bound in the caller's context, Database.execute runs
\* the statement on that session and on no other, makes no session, and
\* neither commits, rolls back, closes nor unbinds the bound session, also
\* when the statement raises.
C18_BoundExecuteFrame ==
    [][(/\ last' # last
        /\ last'.op = "execute"
        /\ current_session(_current_session, TaskCtx(1)) # None)
          => /\ last'.sid = current_session(_current_session, TaskCtx(1))
             /\ last'.calls \in {<<"execute">>, <<"execute!">>}
             /\ UNCHANGED <<_current_session, sessVars, committed>>
             /\ \A s \in SessionIds \ {last'.sid} : pending'[s] = pending[s]
             /\ pending[last'.sid] \subseteq pending'[last'.sid]
             /\ last'.calls = <<"execute!">>
                   => pending' = pending /\ last'.err = "ExecError"]_vars

C18_Witness ==
    /\ last.op = "execute"
    /\ last.sid \in SessionIds
    /\ last.err = "ExecError"
    /\ pc[1] = "body"
    /\ ~closed[last.sid]
    /\ pending[last.sid] # {}
    /\ current_session(_current_session, TaskCtx(1)) = last.sid

\* C12: a stream of db.stream_scalars is released, and the session it made
\* for itself committed or rolled back and closed, once the consumer has
\* iterated to exhaustion and also once it has stopped iterating early.
C12_StreamReleased ==
    (gen.pc = "finished" \/ gen.stopped) =>
        /\ gen.cursor = "closed"
        /\ gen.sid = Implicit
              => /\ gen.session = "closed"
                 /\ Committing(gen.calls) \/ RollingBack(gen.calls)

====
